---- MODULE Spec2Model ----
(***************************************************************************)
(* The split I2C subsystem of sDDF for the ODROID C4: the shared-memory    *)
(* transport (i2c-transport.c), the security/multiplexing server (i2c.c),  *)
(* the client library (i2c-sel4mk.c) and the driver (i2c-odroid-c4.c).     *)
(*                                                                         *)
(* Two specifications share the variables.  Spec is the server with its    *)
(* clients: clients compose requests, ring the server, and call its        *)
(* protected procedure.  SpecDriver is the driver with the hardware list   *)
(* processor and the server's end of the driver transport as environment.  *)
(*                                                                         *)
(* The headers (i2c-driver.h, i2c-token.h, i2c-transport.h, i2c.h,         *)
(* sw_shared_ringbuffer.h) are not part of the sources at hand; what is    *)
(* taken from them is marked where it is used.  The driver calls the       *)
(* transport with its context argument left out in places (reqBufEmpty(),  *)
(* releaseReqBuf(req), pushRetBuf(ret, len)); these calls are read as      *)
(* acting on the driver's own context i2c_ctx, like the calls next to them *)
(* that do pass it.                                                        *)
(***************************************************************************)
EXTENDS Integers, Sequences, FiniteSets, TLC

\* ------------------------------------------------------------------ bounds

\* Clients of the server (i2c.c:21 fixes 1 and marks it for removal; the
\* value is a build parameter).
NUM_CLIENTS == 2
\* Slots per buffer class of a transport context (I2C_BUF_COUNT).
I2C_BUF_COUNT == 2
\* Bytes of a slot (I2C_BUF_SZ).
I2C_BUF_SZ == 24
\* Descriptors a ring holds before enqueue fails.
RingCap == 6
\* Calls the clients make in a run of Spec.
MaxIssued == 3
\* Requests the server's end hands to the driver in a run of SpecDriver.
MaxSubmits == 2
\* Interrupts the list processor raises in a run of SpecDriver.
MaxHw == 4
\* Transport calls in a run of SpecTransport.
MaxOps == 5

\* --------------------------------------------------------------- constants

NULL == 0

\* Request buffer offsets (i2c-driver.h).  i2c-odroid-c4.c:400-401,445 read
\* the token stream from byte 2 on.
REQ_BUF_CLIENT == 0
REQ_BUF_ADDR == 1
REQ_BUF_DAT_OFFSET == 2

\* Portable tokens (i2c-token.h).
I2C_TK_END == 0
I2C_TK_START == 1
I2C_TK_ADDRW == 2
I2C_TK_ADDRR == 3
I2C_TK_DAT == 4
I2C_TK_DATA_END == 5
I2C_TK_STOP == 6

\* Hardware tokens of the list processor (odroidc4-i2c-mem.h).
OC4_I2C_TK_END == 0
OC4_I2C_TK_START == 1
OC4_I2C_TK_ADDRW == 2
OC4_I2C_TK_ADDRR == 3
OC4_I2C_TK_DATA == 4
OC4_I2C_TK_DATA_END == 5
OC4_I2C_TK_STOP == 6

\* Error codes (i2c-driver.h); driverNotify tests `if (err)`, so OK is 0.
I2C_ERR_OK == 0
I2C_ERR_TIMEOUT == 1
I2C_ERR_NACK == 2
I2C_ERR_NOREAD == 3

\* Protected procedure call request types (i2c.h).
I2C_PPC_CLAIM == 1
I2C_PPC_RELEASE == 2

\* Client-side addressing modes (i2c-transport.h).
I2C_MODE_WRITE == 0
I2C_MODE_READ == 1
I2C_MODE_WRITE_CONT == 2
I2C_MODE_READ_CONT == 3

\* ppcError's and the success value of message register 0.
PPC_ERR == -1
PPC_OK == 0

\* ----------------------------------------------------------------- helpers

Pow2(n) == 2 ^ n

RECURSIVE BitOrFrom(_, _, _)
\* a | b, bit by bit from bit k upwards.
BitOrFrom(a, b, k) ==
    IF a = 0 THEN b
    ELSE IF b = 0 THEN a
    ELSE (IF (a % 2 = 1) \/ (b % 2 = 1) THEN 1 ELSE 0)
         + 2 * BitOrFrom(a \div 2, b \div 2, k + 1)

BitOr(a, b) == BitOrFrom(a, b, 0)

\* (x >> sh) & (2^width - 1)
Field(x, sh, width) == (x \div Pow2(sh)) % Pow2(width)


\* ------------------------------------------------------------ ring library

\* A ring is the sequence of its occupied descriptors, oldest first.
Desc(buf, sz) == [buf |-> buf, sz |-> sz]

EmptyRing == << >>

ring_empty(r) == Len(r) = 0

ring_full(r) == Len(r) >= RingCap

\* An enqueue that appends whether or not the ring is full.
enqueue_unchecked(r, buf, sz) == Append(r, Desc(buf, sz))

\* enqueue: the ring afterwards; a full ring is left as it is.
enqueue(r, buf, sz) == IF ring_full(r) THEN r ELSE Append(r, Desc(buf, sz))

\* enqueue's return value: 0, or -1 on a full ring.
enqueue_rc(r) == IF ring_full(r) THEN -1 ELSE 0

\* dequeue: the ring afterwards; an empty ring is left as it is.
dequeue(r) == IF ring_empty(r) THEN r ELSE Tail(r)

dequeue_rc(r) == IF ring_empty(r) THEN -1 ELSE 0

\* The descriptor dequeue hands out (only read when dequeue_rc is 0).
ring_head(r) == IF ring_empty(r) THEN Desc(NULL, 0) ELSE Head(r)

\* ------------------------------------------------------- transport context

ReqSlots == 1 .. I2C_BUF_COUNT
RetSlots == (I2C_BUF_COUNT + 1) .. (2 * I2C_BUF_COUNT)

RECURSIVE FillFree(_, _, _)
\* The loop of i2cTransportInit: enqueue_free of slots i .. I2C_BUF_COUNT-1
\* of one class, whose first slot is base.
FillFree(r, base, i) ==
    IF i >= I2C_BUF_COUNT THEN r
    ELSE FillFree(enqueue(r, base + i, I2C_BUF_SZ), base, i + 1)

\* i2cTransportInit(context, 1) on a fresh region.
i2cTransportInit ==
    [req_free |-> FillFree(EmptyRing, 1, 0),
     req_used |-> EmptyRing,
     ret_free |-> FillFree(EmptyRing, I2C_BUF_COUNT + 1, 0),
     ret_used |-> EmptyRing]

reqBufEmpty(ctx) == ring_empty(ctx.req_used)

retBufEmpty(ctx) == ring_empty(ctx.ret_used)

\* A request slot's bytes, C index i at position i + 1.
ZeroSlot == [i \in 1 .. I2C_BUF_SZ |-> 0]

\* A return slot: the header fields by name and the payload bytes.
ZeroRet == [client |-> 0, addr |-> 0, err |-> 0, err_tk |-> 0, data |-> << >>]

\* buf[i] of request-class memory m (NULL has no memory behind it).
ByteAt(m, buf, i) ==
    IF buf \in DOMAIN m /\ i + 1 \in 1 .. I2C_BUF_SZ THEN m[buf][i + 1] ELSE 0

\* memcpy(buf + off, data, n) into slot bytes b.
CopyIn(b, off, data, n) ==
    [i \in 1 .. I2C_BUF_SZ |->
        IF i - 1 >= off /\ i - 1 < off + n /\ i - off \in DOMAIN data
        THEN data[i - off] ELSE b[i]]

\* ------------------------------------------------------------------- state

\* The driver's notification channel at the server (i2c.h); any id that is
\* no client id.
DRIVER_NOTIFY_ID == 60

\* Longest client transfer (i2c-sel4mk.h).
I2C_MAXLEN == 508

Clients == 0 .. (NUM_CLIENTS - 1)

VARIABLES
    security_list,    \* i2c.c:38, address -> owning client or -1
    i2c_contexts,     \* i2c.c:41, the rings of each client<=>server link
    client_req_mem,   \* request slots of each client link
    client_ret_mem,   \* return slots of each client link
    driver_context,   \* i2c.c:48 and i2c-odroid-c4.c:46, the server<=>driver rings
    driver_req_mem,   \* request slots of the driver link
    driver_ret_mem,   \* return slots of the driver link
    i2c_ifState,      \* i2c-odroid-c4.c:119
    interface,        \* i2c-odroid-c4.c:51, the bus interface registers
    server_pending,   \* channels with a notification pending at the server
    driver_pending,   \* a server notification is pending at the driver
    client_pending,   \* clients with a notification pending
    irq_pending,      \* the completion interrupt line is raised
    irq_to_pending,   \* the timeout interrupt line is raised
    driver_fault,     \* the driver took a memory fault
    server_fault,     \* the server took a memory fault
    ev,               \* the handler that ran last, and what it did
    h_claimed,        \* history: who called claim for an address first
    h_issued,         \* history: calls made so far
    h_hw,             \* history: interrupts the hardware raised so far
    h_passes          \* history: i2cLoadTokens runs for the in-flight request

vars == << security_list, i2c_contexts, client_req_mem, client_ret_mem,
           driver_context, driver_req_mem, driver_ret_mem, i2c_ifState,
           interface, server_pending, driver_pending, client_pending,
           irq_pending, irq_to_pending, driver_fault, server_fault, ev,
           h_claimed, h_issued, h_hw, h_passes >>

serverVars == << security_list, i2c_contexts, client_req_mem, client_ret_mem,
                 server_pending, client_pending, server_fault, h_claimed >>

clientLinkVars == << security_list, i2c_contexts, client_req_mem,
                     client_ret_mem, client_pending, h_claimed >>

driverVars == << i2c_ifState, interface, irq_pending, irq_to_pending,
                 driver_fault, h_hw, h_passes >>

\* What a handler reports of its run; every field is reset by each handler.
NoEv ==
    [op |-> "init", channel |-> -1, addr |-> -1, client |-> -1, req |-> -1,
     outcome |-> "none", result |-> 0, owner |-> -1,
     notify_server |-> 0, notify_driver |-> 0, notify_client |-> -1,
     popped |-> NULL, pushed |-> NULL, released |-> NULL,
     loads |-> 0, timeout |-> 0, hw_err |-> 0, hw_tok |-> 0,
     busy |-> FALSE, pending |-> FALSE, room |-> FALSE, len |-> 0,
     ctx |-> -1]

\* The interface after setupi2c: list processor stopped, registers clear
\* (only the fields the driver's handlers read or write are kept: ctl bits
\* 0..11 and the low byte of the address register).
InitInterface ==
    [ctl |-> 0, addr |-> 0, tk_list0 |-> 0, tk_list1 |-> 0,
     wdata0 |-> 0, wdata1 |-> 0, rdata0 |-> 0, rdata1 |-> 0]

\* Driver init (i2c-odroid-c4.c:476-480); ddr is static, hence 0.
InitIfState ==
    [current_req |-> NULL, current_ret |-> NULL, current_req_len |-> 0,
     remaining |-> 0, notified |-> 0, ddr |-> 0]

\* Server init (i2c.c:55-94) and driver init (i2c-odroid-c4.c:472-483).
Init ==
    /\ security_list = [a \in 0 .. 127 |-> -1]
    /\ i2c_contexts = [c \in Clients |-> i2cTransportInit]
    /\ client_req_mem = [c \in Clients |-> [s \in ReqSlots |-> ZeroSlot]]
    /\ client_ret_mem = [c \in Clients |-> [s \in RetSlots |-> ZeroRet]]
    /\ driver_context = i2cTransportInit
    /\ driver_req_mem = [s \in ReqSlots |-> ZeroSlot]
    /\ driver_ret_mem = [s \in RetSlots |-> ZeroRet]
    /\ i2c_ifState = InitIfState
    /\ interface = InitInterface
    /\ server_pending = {}
    /\ driver_pending = FALSE
    /\ client_pending = {}
    /\ irq_pending = FALSE
    /\ irq_to_pending = FALSE
    /\ driver_fault = FALSE
    /\ server_fault = FALSE
    /\ ev = NoEv
    /\ h_claimed = [a \in 0 .. 127 |-> -1]
    /\ h_issued = 0
    /\ h_hw = 0
    /\ h_passes = 0

\* --------------------------------------------------------- transport calls

\* buf[i] = v on slot bytes b.
Put(b, i, v) == IF i + 1 \in DOMAIN b THEN [b EXCEPT ![i + 1] = v] ELSE b

\* A size test that lets every size through.
TooLarge_never(size, limit) == FALSE

\* The size test of the allocators (i2c-transport.c:35, 72, 80).
TooLarge(size, limit) == size > limit

\* serverAllocReqBuf (i2c-transport.c:33-63) on context ctx with request
\* memory mem.  data is the source of the memcpy.
serverAllocReqBuf(ctx, mem, size, data, client, addr) ==
    LET fail == [ok |-> FALSE, buf |-> NULL, ctx |-> ctx, mem |-> mem]
        buf == ring_head(ctx.req_free).buf
        sz_offset == REQ_BUF_DAT_OFFSET
        filled == IF buf \in DOMAIN mem
                  THEN [mem EXCEPT ![buf] =
                           CopyIn(Put(Put(@, REQ_BUF_CLIENT, client),
                                      REQ_BUF_ADDR, addr),
                                  sz_offset, data, size)]
                  ELSE mem
        taken == [ctx EXCEPT !.req_free = dequeue(@)]
    IN  IF TooLarge(size, I2C_BUF_SZ - REQ_BUF_DAT_OFFSET) THEN fail
        ELSE IF dequeue_rc(ctx.req_free) # 0 THEN fail
        ELSE IF enqueue_rc(taken.req_used) # 0
             THEN [ok |-> FALSE, buf |-> NULL,
                   ctx |-> [taken EXCEPT !.req_free = enqueue(@, buf, I2C_BUF_SZ)],
                   mem |-> filled]
             ELSE [ok |-> TRUE, buf |-> buf,
                   ctx |-> [taken EXCEPT !.req_used = enqueue(@, buf, size + sz_offset)],
                   mem |-> filled]

RECURSIVE ClientWriteLoop(_, _, _, _, _)
\* The write loop of clientAllocReqBuf (i2c-transport.c:113-119).
ClientWriteLoop(b, data, size, i, dat_offset) ==
    IF i < size + REQ_BUF_DAT_OFFSET
    THEN ClientWriteLoop(
             Put(Put(b, i, I2C_TK_DAT), i + 1,
                 IF dat_offset + 1 \in DOMAIN data THEN data[dat_offset + 1] ELSE 0),
             data, size, i + 2, dat_offset + 1)
    ELSE b

RECURSIVE ClientReadLoop(_, _, _)
\* The read loop of clientAllocReqBuf (i2c-transport.c:124-128).
ClientReadLoop(b, size, i) ==
    IF i < (size - 1) + REQ_BUF_DAT_OFFSET
    THEN ClientReadLoop(Put(b, i, I2C_TK_DAT), size, i + 1)
    ELSE b

\* The token chain clientAllocReqBuf composes in slot bytes b
\* (i2c-transport.c:98-135).
ClientCompose(b, size, data, addr, mode) ==
    LET isW == mode = I2C_MODE_WRITE \/ mode = I2C_MODE_WRITE_CONT
        pre == Put(Put(Put(b, REQ_BUF_CLIENT, 0), REQ_BUF_ADDR, addr),
                   REQ_BUF_DAT_OFFSET,
                   IF isW THEN I2C_TK_ADDRW ELSE I2C_TK_ADDRR)
        body == IF isW
                THEN ClientWriteLoop(pre, data, size, REQ_BUF_DAT_OFFSET + 1, 0)
                ELSE Put(ClientReadLoop(pre, size, REQ_BUF_DAT_OFFSET + 1),
                         size + REQ_BUF_DAT_OFFSET, I2C_TK_DATA_END)
    IN  IF mode = I2C_MODE_READ_CONT \/ mode = I2C_MODE_WRITE_CONT
        THEN Put(body, size + REQ_BUF_DAT_OFFSET + 1, I2C_TK_END)
        ELSE body

\* clientAllocReqBuf (i2c-transport.c:65-145).
clientAllocReqBuf(ctx, mem, size, data, addr, mode) ==
    LET fail == [ok |-> FALSE, buf |-> NULL, ctx |-> ctx, mem |-> mem]
        isW == mode = I2C_MODE_WRITE \/ mode = I2C_MODE_WRITE_CONT
        limit == IF isW THEN (I2C_BUF_SZ \div 2) - REQ_BUF_DAT_OFFSET
                 ELSE I2C_BUF_SZ - REQ_BUF_DAT_OFFSET
        buf == ring_head(ctx.req_free).buf
        filled == IF buf \in DOMAIN mem
                  THEN [mem EXCEPT ![buf] = ClientCompose(@, size, data, addr, mode)]
                  ELSE mem
        taken == [ctx EXCEPT !.req_free = dequeue(@)]
    IN  IF TooLarge(size, limit) THEN fail
        ELSE IF dequeue_rc(ctx.req_free) # 0 THEN fail
        ELSE IF enqueue_rc(taken.req_used) # 0
             THEN [ok |-> FALSE, buf |-> NULL,
                   ctx |-> [taken EXCEPT !.req_free = enqueue(@, buf, I2C_BUF_SZ)],
                   mem |-> filled]
             ELSE [ok |-> TRUE, buf |-> buf,
                   ctx |-> [taken EXCEPT !.req_used = enqueue(@, buf, size)],
                   mem |-> filled]

\* getRetBuf (i2c-transport.c:147-157): the slot, or NULL.
getRetBuf(ctx) ==
    IF dequeue_rc(ctx.ret_free) # 0 THEN NULL ELSE ring_head(ctx.ret_free).buf

\* pushRetBuf (i2c-transport.c:159-166): the context afterwards.
pushRetBuf(ctx, buf) ==
    IF buf = NULL THEN ctx
    ELSE [ctx EXCEPT !.ret_used = enqueue(@, buf, I2C_BUF_SZ)]

\* A release that drops the request slot.
releaseReqBuf_drop(ctx, buf) == ctx

\* releaseReqBuf (i2c-transport.c:197-200): the context afterwards.
releaseReqBuf(ctx, buf) == [ctx EXCEPT !.req_free = enqueue(@, buf, I2C_BUF_SZ)]

\* A release that drops the return slot.
releaseRetBuf_drop(ctx, buf) == ctx

\* releaseRetBuf (i2c-transport.c:202-205): the context afterwards.
releaseRetBuf(ctx, buf) == [ctx EXCEPT !.ret_free = enqueue(@, buf, I2C_BUF_SZ)]

\* ------------------------------------------------------------------ driver

\* i2cGetError (i2c-odroid-c4.c:299-311) of control register ctl: negative
\* for a NACK at the token in bits 4-7, else the read count of bits 8-11.
i2cGetError(ctl) ==
    LET err == Field(ctl, 3, 1)
        rd == Field(ctl, 8, 4)
        tok == Field(ctl, 4, 4)
    IN  IF err # 0 THEN 0 - tok ELSE rd

\* i2cStart (i2c-odroid-c4.c:313-322): ctl with the start bit set.
i2cStart(ctl) == BitOr(ctl - (ctl % 2), 1)

\* i2cHalt (i2c-odroid-c4.c:324-332): ctl with the start bit cleared.
i2cHalt(ctl) == ctl - (ctl % 2)

\* i2cFlush (i2c-odroid-c4.c:334-351).
i2cFlush(hw) == [hw EXCEPT !.tk_list0 = 0, !.tk_list1 = 0]

\* The switch of i2cLoadTokens (i2c-odroid-c4.c:405-432): the hardware
\* token, or -1 for a byte that is no token.
TranslateToken(tok) ==
    CASE tok = I2C_TK_END -> OC4_I2C_TK_END
      [] tok = I2C_TK_START -> OC4_I2C_TK_START
      [] tok = I2C_TK_ADDRW -> OC4_I2C_TK_ADDRW
      [] tok = I2C_TK_ADDRR -> OC4_I2C_TK_ADDRR
      [] tok = I2C_TK_DAT -> OC4_I2C_TK_DATA
      [] tok = I2C_TK_DATA_END -> OC4_I2C_TK_DATA_END
      [] tok = I2C_TK_STOP -> OC4_I2C_TK_STOP
      [] OTHER -> -1

\* One token stored at slot tk_offset of the token list registers
\* (i2c-odroid-c4.c:435-441; the padding of 389-395 alike).
StoreToken(s, odroid_tok) ==
    IF s.tk_offset < 8
    THEN [s EXCEPT !.tk_list0 =
                       BitOr(@, (odroid_tok % 16) * Pow2(s.tk_offset * 4)),
                   !.tk_offset = @ + 1]
    ELSE [s EXCEPT !.tk_list1 =
                       BitOr(@, odroid_tok * Pow2((s.tk_offset - 8) * 4)),
                   !.tk_offset = @ + 1]

\* A store that puts every byte in lane 0.
StoreData_first_lane(s, byte) ==
    [s EXCEPT !.wdata0 = BitOr(@, byte), !.wdat_offset = @ + 1]

\* One byte stored at lane wdat_offset of the write data registers
\* (i2c-odroid-c4.c:444-450).
StoreData(s, byte) ==
    IF s.wdat_offset < 4
    THEN [s EXCEPT !.wdata0 = BitOr(@, byte * Pow2(s.wdat_offset * 8)),
                   !.wdat_offset = @ + 1]
    ELSE [s EXCEPT !.wdata1 = BitOr(@, byte * Pow2((s.wdat_offset - 4) * 8)),
                   !.wdat_offset = @ + 1]

RECURSIVE LoadLoop(_, _, _)
\* The while loop of i2cLoadTokens (i2c-odroid-c4.c:386-455) over the slot
\* bytes `tokens` of a request of `len` token bytes; rc = -1 once a byte
\* that is no token was met.
LoadLoop(tokens, len, s) ==
    IF ~(s.tk_offset < 16 /\ s.wdat_offset < 8) THEN s
    ELSE IF s.i >= len
    THEN LoadLoop(tokens, len,
                  [StoreToken(s, OC4_I2C_TK_END) EXCEPT !.i = @ + 1])
    ELSE LET tok == IF REQ_BUF_DAT_OFFSET + s.i + 1 \in DOMAIN tokens
                    THEN tokens[REQ_BUF_DAT_OFFSET + s.i + 1] ELSE 0
             odroid_tok == TranslateToken(tok)
             ddr == IF tok = I2C_TK_ADDRW THEN 0
                    ELSE IF tok = I2C_TK_ADDRR THEN 1 ELSE s.ddr
             stored == [StoreToken(s, odroid_tok) EXCEPT !.ddr = ddr]
             byte == IF 2 + s.i + 1 + 1 \in DOMAIN tokens
                     THEN tokens[2 + s.i + 1 + 1] ELSE 0
         IN  IF odroid_tok = -1 THEN [s EXCEPT !.rc = -1]
             ELSE IF odroid_tok = OC4_I2C_TK_DATA /\ ddr = 0
             THEN LoadLoop(tokens, len,
                           [StoreData(stored, byte) EXCEPT !.i = @ + 2])
             ELSE LoadLoop(tokens, len, [stored EXCEPT !.i = @ + 1])

\* What the driver's handlers work on: the rings and return memory of its
\* context, its interface state and registers, and what the handler did.
DriverState ==
    [ctx |-> driver_context, rmem |-> driver_ret_mem, ifs |-> i2c_ifState,
     hw |-> interface, fault |-> FALSE, passes |-> h_passes,
     popped |-> NULL, pushed |-> NULL, released |-> NULL,
     loads |-> 0, notify_server |-> 0]

\* The bytes behind request pointer req (none behind NULL).
SlotBytes(req) == IF req \in DOMAIN driver_req_mem THEN driver_req_mem[req] ELSE << >>

\* A load that leaves nothing for a later pass.
RemainingAfter_none(len, i) == 0

\* remaining after a load that stopped at offset i (i2c-odroid-c4.c:458-459);
\* current_req_len and i are ints.
RemainingAfter(len, i) == IF len - i > 0 THEN len - i ELSE 0

\* An address test that lets every address through.
AddrOutOfRange_never(addr) == FALSE

\* The address test of i2cLoadTokens (i2c-odroid-c4.c:360).
AddrOutOfRange(addr) == addr > 127

\* i2cLoadTokens (i2c-odroid-c4.c:353-468) on driver state D.  ub_read is
\* what reading the address byte through a NULL current_req gives: a fault,
\* or the byte read.
i2cLoadTokens(D, ub_read) ==
    LET req == D.ifs.current_req
        tokens == SlotBytes(req)
        addr == IF req = NULL THEN ub_read.byte ELSE tokens[REQ_BUF_ADDR + 1]
        flushed == i2cFlush(D.hw)
        addressed == BitOr(flushed.addr - (flushed.addr % 128), (addr % 128) * 2)
        s0 == [tk_list0 |-> 0, tk_list1 |-> 0, wdata0 |-> 0, wdata1 |-> 0,
               tk_offset |-> 0, wdat_offset |-> 0,
               i |-> D.ifs.current_req_len - D.ifs.remaining,
               ddr |-> D.ifs.ddr, rc |-> 0]
        s == LoadLoop(tokens, D.ifs.current_req_len, s0)
        loaded == [flushed EXCEPT !.addr = addressed,
                                  !.tk_list0 = s.tk_list0, !.tk_list1 = s.tk_list1,
                                  !.wdata0 = s.wdata0, !.wdata1 = s.wdata1]
    IN  IF req = NULL /\ ub_read.fault THEN [D EXCEPT !.fault = TRUE]
        ELSE IF AddrOutOfRange(addr) THEN D
        ELSE IF s.rc = -1
        THEN [D EXCEPT !.hw = loaded, !.ifs.ddr = s.ddr]
        ELSE [D EXCEPT
                 !.hw = [loaded EXCEPT !.ctl = i2cStart(@)],
                 !.ifs.ddr = s.ddr,
                 !.ifs.remaining =
                     RemainingAfter(D.ifs.current_req_len, s.i),
                 !.passes = @ + 1,
                 !.loads = @ + 1]

\* A busy test that never defers.
InProgress_never(ifs) == FALSE

\* The busy test of checkBuf (i2c-odroid-c4.c:492).
InProgress(ifs) == ifs.current_req # NULL

\* checkBuf (i2c-odroid-c4.c:488-547).
checkBuf(D) ==
    LET d == ring_head(D.ctx.req_used)
        req == d.buf
        sz == d.sz
        popped == [D EXCEPT !.ctx.req_used = dequeue(@), !.popped = req]
        ret == getRetBuf(popped.ctx)
        got == [popped EXCEPT
                   !.ctx.ret_free = dequeue(@),
                   !.rmem = [@ EXCEPT
                                ![ret].client = ByteAt(driver_req_mem, req, REQ_BUF_CLIENT),
                                ![ret].addr = ByteAt(driver_req_mem, req, REQ_BUF_ADDR)]]
        started == [got EXCEPT
                       !.ifs.current_req = req,
                       !.ifs.current_req_len = sz - REQ_BUF_DAT_OFFSET,
                       !.ifs.remaining = sz - REQ_BUF_DAT_OFFSET,
                       !.ifs.notified = 0,
                       !.ifs.current_ret = ret,
                       !.passes = 0]
    IN  IF reqBufEmpty(D.ctx) THEN [D EXCEPT !.ifs.notified = 0]
        ELSE IF InProgress(D.ifs) THEN [D EXCEPT !.ifs.notified = 1]
        ELSE IF req = NULL THEN popped
        ELSE IF ret = NULL
        THEN [popped EXCEPT !.ctx = releaseReqBuf(@, req), !.released = req]
        ELSE IF sz <= REQ_BUF_DAT_OFFSET \/ sz > I2C_BUF_SZ THEN got
        ELSE i2cLoadTokens(started, [fault |-> TRUE, byte |-> 0])

\* serverNotify (i2c-odroid-c4.c:554-565): checkBuf for i = 2 and i = 3.
serverNotify(D) == checkBuf(checkBuf(D))

\* The error code for a NACK reported as err < 0 (i2c-odroid-c4.c:608-614).
NackCode(err) == IF err = 0 - I2C_TK_ADDRR THEN I2C_ERR_NOREAD ELSE I2C_ERR_NACK

\* Byte i of the read data registers (i2c-odroid-c4.c:622-626).
ReadByte(hw, i) ==
    IF i < 4 THEN Field(hw.rdata0, i * 8, 8) ELSE Field(hw.rdata1, (i - 4) * 8, 8)

\* The payload after the first n bytes were copied from the registers.
CopyRead(data, hw, n) ==
    [i \in 1 .. (IF n > Len(data) THEN n ELSE Len(data)) |->
        IF i <= n THEN ReadByte(hw, i - 1) ELSE data[i]]

\* The test that ends a transaction (i2c-odroid-c4.c:636).
Finished(err, ifs) == err < 0 \/ ifs.remaining = 0

\* A timeout branch that only halts the list processor.
i2cirq_timeout_halt_only(D) == [D EXCEPT !.hw.ctl = i2cHalt(@)]

\* The timeout branch of i2cirq (i2c-odroid-c4.c:576-592).
i2cirq_timeout(D) ==
    LET halted == [D EXCEPT !.hw.ctl = i2cHalt(@)]
        ret == D.ifs.current_ret
        req == D.ifs.current_req
        pushed == IF ret # NULL
                  THEN [halted EXCEPT
                           !.rmem = [@ EXCEPT ![ret].err = I2C_ERR_TIMEOUT,
                                              ![ret].err_tk = 0],
                           !.ctx = pushRetBuf(@, ret),
                           !.pushed = ret]
                  ELSE halted
        released == IF req # NULL
                    THEN [pushed EXCEPT !.ctx = releaseReqBuf(@, req),
                                        !.released = req]
                    ELSE pushed
    IN  [released EXCEPT !.ifs.current_ret = NULL, !.ifs.current_req = NULL,
                         !.ifs.current_req_len = 0, !.ifs.remaining = 0]

\* The completion branch of i2cirq (i2c-odroid-c4.c:594-658).  ub_write is
\* what a store through a NULL current_ret does ("fault" or "lost"), ub_read
\* what a load through a NULL current_req gives.
i2cirq_complete(D, ub_write, ub_read) ==
    LET halted == [D EXCEPT !.hw.ctl = i2cHalt(@)]
        err == i2cGetError(halted.hw.ctl)
        ret == D.ifs.current_ret
        req == D.ifs.current_req
        marked ==
            IF ret = NULL THEN halted
            ELSE IF err < 0
            THEN [halted EXCEPT
                     !.rmem = [@ EXCEPT ![ret].err = NackCode(err),
                                        ![ret].err_tk = 0 - err]]
            ELSE [halted EXCEPT
                     !.rmem = [@ EXCEPT
                                  ![ret].data = IF err > 0
                                                THEN CopyRead(@, halted.hw, err)
                                                ELSE @,
                                  ![ret].err = I2C_ERR_OK,
                                  ![ret].err_tk = 0]]
        done ==
            IF Finished(err, marked.ifs)
            THEN [marked EXCEPT
                     !.ctx = releaseReqBuf(pushRetBuf(@, ret), req),
                     !.pushed = ret, !.released = req,
                     !.ifs.current_ret = NULL, !.ifs.current_req = NULL,
                     !.ifs.current_req_len = 0, !.ifs.remaining = 0,
                     !.notify_server = @ + 1,
                     !.hw.ctl = i2cHalt(@)]
            ELSE marked
    IN  IF ret = NULL /\ ub_write = "fault" THEN [halted EXCEPT !.fault = TRUE]
        ELSE IF done.ifs.notified # 0 \/ done.ifs.remaining # 0
        THEN i2cLoadTokens(done, ub_read)
        ELSE done

\* i2cirq (i2c-odroid-c4.c:571-658).
i2cirq(D, timeout, ub_write, ub_read) ==
    IF timeout # 0 THEN i2cirq_timeout(D)
    ELSE i2cirq_complete(D, ub_write, ub_read)

\* ------------------------------------------------------------------ server

\* Inputs of the clients.
ClientAddrs == {80, 200}
ClientSizes == {2}
ClientData == << 17, 18, 19 >>
PpcReqs == {I2C_PPC_CLAIM, I2C_PPC_RELEASE}
PpcAddrs == {80, 127, 128}
\* Client words a caller passes in the client-id message register: the
\* clients' ids, and the word that compares equal to the unclaimed mark.
PpcClients == Clients \cup {-1}

\* What a read past the end of security_list may find.
OobOwners == {-1} \cup Clients

\* security_list[addr] as the server reads it: addr is a uint8_t taken from
\* the request, and the list has entries 0..127.
OwnerRead(sl, addr, oob) == IF addr \in DOMAIN sl THEN sl[addr] ELSE oob

\* An admission test that lets requests for unclaimed addresses through.
NotClaimedBy_unclaimed_ok(owner, channel) == owner # channel /\ owner # -1

\* clientNotify's admission test (i2c.c:171): TRUE when the request is
\* dismissed.
NotClaimedBy(owner, channel) == owner # channel

\* Channels a notification can arrive on besides the clients' and the
\* driver's: the first past the clients and the one after it.
StrayChannels == {NUM_CLIENTS, NUM_CLIENTS + 1}

Channels == Clients \cup StrayChannels

\* What the server makes of the memory past the end of i2c_contexts when it
\* takes it for a context: the access faults, or the rings found there look
\* empty.
UbContexts == {"fault", "empty"}

\* clientNotify (i2c.c:150-186) for a notification on `channel`; oob is
\* what a read past the security list finds, ubc what a context past the
\* end of i2c_contexts (i2c.c:157) turns out to be.  ctx is the index of
\* the element of i2c_contexts the handler used (-1: none).
clientNotify(channel, oob, ubc) ==
    LET context == i2c_contexts[channel]
        same == [contexts |-> i2c_contexts, dctx |-> driver_context,
                 dmem |-> driver_req_mem, popped |-> NULL, addr |-> -1,
                 owner |-> -1, released |-> NULL, outcome |-> "empty",
                 fault |-> FALSE, ctx |-> channel]
        d == ring_head(context.req_used)
        req == d.buf
        sz == d.sz
        popped == [context EXCEPT !.req_used = dequeue(@)]
        addr == ByteAt(client_req_mem[channel], req, REQ_BUF_ADDR)
        owner == OwnerRead(security_list, addr, oob)
        alloc == serverAllocReqBuf(driver_context, driver_req_mem, sz,
                                   client_req_mem[channel][req], channel, addr)
    IN  IF channel > NUM_CLIENTS
        THEN [same EXCEPT !.outcome = "bad_channel", !.ctx = -1]
        ELSE IF channel \notin Clients
        THEN [same EXCEPT !.outcome = "oob_context",
                          !.fault = (ubc = "fault")]
        ELSE IF reqBufEmpty(context) THEN same
        ELSE IF req = NULL
        THEN [same EXCEPT !.contexts = [i2c_contexts EXCEPT ![channel] = popped],
                          !.outcome = "null"]
        ELSE IF NotClaimedBy(owner, channel)
        THEN [same EXCEPT
                 !.contexts = [i2c_contexts EXCEPT
                                  ![channel] = releaseReqBuf(popped, req)],
                 !.popped = req, !.addr = addr, !.owner = owner,
                 !.released = req, !.outcome = "not_claimed"]
        ELSE IF alloc.buf = NULL
        THEN [same EXCEPT
                 !.contexts = [i2c_contexts EXCEPT
                                  ![channel] = releaseReqBuf(popped, req)],
                 !.dctx = alloc.ctx, !.dmem = alloc.mem,
                 !.popped = req, !.addr = addr, !.owner = owner,
                 !.released = req, !.outcome = "no_buffer"]
        ELSE [same EXCEPT
                 !.contexts = [i2c_contexts EXCEPT ![channel] = popped],
                 !.dctx = alloc.ctx, !.dmem = alloc.mem,
                 !.popped = req, !.addr = addr, !.owner = owner,
                 !.outcome = "forwarded"]

\* notified (i2c.c:189-206) on a client's channel: clientNotify, then the
\* ping of the driver when its request ring holds work.
server_notified_client(c) ==
    /\ ~server_fault
    /\ c \in server_pending
    /\ c \in Channels
    /\ \E oob \in OobOwners, ubc \in UbContexts :
         LET r == clientNotify(c, oob, ubc)
             ping == ~r.fault /\ ~reqBufEmpty(r.dctx)
         IN  /\ i2c_contexts' = r.contexts
             /\ driver_context' = r.dctx
             /\ driver_req_mem' = r.dmem
             /\ server_fault' = r.fault
             /\ driver_pending' = (driver_pending \/ ping)
             /\ ev' = [NoEv EXCEPT
                          !.op = "clientNotify", !.channel = c,
                          !.ctx = r.ctx,
                          !.addr = r.addr, !.owner = r.owner,
                          !.popped = r.popped, !.released = r.released,
                          !.outcome = r.outcome,
                          !.room = ~ring_empty(driver_context.req_free),
                          !.notify_driver = IF ping THEN 1 ELSE 0]
    /\ server_pending' = server_pending \ {c}
    /\ UNCHANGED << security_list, client_req_mem, client_ret_mem,
                    driver_ret_mem, client_pending, h_claimed, h_issued >>
    /\ UNCHANGED driverVars

\* ppcError (i2c.c:208-211): message register 0.
ppcError == PPC_ERR

\* securityClaim (i2c.c:216-228): the reply and the list afterwards.
securityClaim(sl, addr, client) ==
    IF sl[addr] # -1
    THEN [mr0 |-> ppcError, sl |-> sl]
    ELSE [mr0 |-> PPC_OK, sl |-> [sl EXCEPT ![addr] = client]]

\* securityRelease (i2c.c:233-244).
securityRelease(sl, addr, client) ==
    IF sl[addr] # client
    THEN [mr0 |-> ppcError, sl |-> sl]
    ELSE [mr0 |-> PPC_OK, sl |-> [sl EXCEPT ![addr] = -1]]

\* A request-type test that refuses what is neither a claim nor a release.
PpcBadType_neither(req) == req # I2C_PPC_CLAIM /\ req # I2C_PPC_RELEASE

\* The request-type test of protected (i2c.c:258): TRUE when the call is
\* refused.
PpcBadType(req) == req # I2C_PPC_CLAIM \/ req # I2C_PPC_RELEASE

\* protected (i2c.c:251-278): the reply and the list afterwards.
protected(sl, req, ppc_addr, client_pd) ==
    IF PpcBadType(req) THEN [mr0 |-> ppcError, sl |-> sl]
    ELSE IF ppc_addr < 0 \/ ppc_addr > 127 THEN [mr0 |-> ppcError, sl |-> sl]
    ELSE IF req = I2C_PPC_CLAIM THEN securityClaim(sl, ppc_addr, client_pd)
    ELSE IF req = I2C_PPC_RELEASE THEN securityRelease(sl, ppc_addr, client_pd)
    ELSE [mr0 |-> 7, sl |-> sl]

\* The calls made so far, as the administrative interface is documented:
\* the first claim of a free address takes it, its holder's release frees it.
Ledger(h, req, ppc_addr, client_pd) ==
    IF ppc_addr \notin 0 .. 127 THEN h
    ELSE IF req = I2C_PPC_CLAIM /\ h[ppc_addr] = -1
    THEN [h EXCEPT ![ppc_addr] = client_pd]
    ELSE IF req = I2C_PPC_RELEASE /\ h[ppc_addr] = client_pd
    THEN [h EXCEPT ![ppc_addr] = -1]
    ELSE h

\* A client's protected procedure call into the server.
Protected(c, req, ppc_addr, client_pd) ==
    /\ ~server_fault
    /\ h_issued < MaxIssued
    /\ h_issued' = h_issued + 1
    /\ LET r == protected(security_list, req, ppc_addr, client_pd)
       IN  /\ security_list' = r.sl
           /\ ev' = [NoEv EXCEPT
                        !.op = "protected", !.channel = c, !.req = req,
                        !.addr = ppc_addr, !.client = client_pd,
                        !.owner = OwnerRead(security_list, ppc_addr, -1),
                        !.result = r.mr0]
    /\ h_claimed' = Ledger(h_claimed, req, ppc_addr, client_pd)
    /\ UNCHANGED << i2c_contexts, client_req_mem, client_ret_mem,
                    driver_context, driver_req_mem, driver_ret_mem,
                    server_pending, driver_pending, client_pending,
                    server_fault >>
    /\ UNCHANGED driverVars

\* ----------------------------------------------------------------- clients

\* __i2c_write / __i2c_read (i2c-sel4mk.c:65-119) of client c: compose the
\* request in the client's link and ring the server.
ClientRequest(c, len, addr, mode) ==
    /\ h_issued < MaxIssued
    /\ h_issued' = h_issued + 1
    /\ len <= I2C_MAXLEN
    /\ LET data == SubSeq(ClientData, 1, len)
           r == clientAllocReqBuf(i2c_contexts[c], client_req_mem[c], len,
                                  data, addr, mode)
       IN  /\ r.ok
           /\ i2c_contexts' = [i2c_contexts EXCEPT ![c] = r.ctx]
           /\ client_req_mem' = [client_req_mem EXCEPT ![c] = r.mem]
           /\ server_pending' = server_pending \cup {c}
           /\ ev' = [NoEv EXCEPT !.op = "clientRequest", !.channel = c,
                                 !.addr = addr, !.pushed = r.buf]
    /\ UNCHANGED << security_list, client_ret_mem, driver_context,
                    driver_req_mem, driver_ret_mem, driver_pending,
                    client_pending, server_fault, h_claimed >>
    /\ UNCHANGED driverVars

i2c_write(c, len, addr) == ClientRequest(c, len, addr, I2C_MODE_WRITE)

i2c_read(c, len, addr) == ClientRequest(c, len, addr, I2C_MODE_READ)

\* The server with its clients.
Next ==
    \/ \E c \in Clients, len \in ClientSizes, addr \in ClientAddrs :
           i2c_write(c, len, addr)
    \/ \E c \in Clients, len \in ClientSizes, addr \in ClientAddrs :
           i2c_read(c, len, addr)
    \/ \E c \in Clients : server_notified_client(c)
    \/ \E c \in Clients, req \in PpcReqs, a \in PpcAddrs, pd \in PpcClients :
           Protected(c, req, a, pd)

Spec == Init /\ [][Next]_vars

\* ------------------------------------------------- the driver's environment

\* Token streams the server's end hands to the driver: a 10-byte write and a
\* 2-byte read.
RECURSIVE WritePairs(_, _)
WritePairs(n, k) ==
    IF k > n THEN << >> ELSE << I2C_TK_DAT, 16 + k >> \o WritePairs(n, k + 1)

WriteStream(n) == << I2C_TK_ADDRW >> \o WritePairs(n, 1)

ReadStream == << I2C_TK_ADDRR, I2C_TK_DAT, I2C_TK_DATA_END >>

Streams == {WriteStream(10), ReadStream}

DriverAddrs == {80, 200}

\* The client the submitted requests are on behalf of.
DriverClients == {1}

\* Current-token values the list processor reports with the error bit: the
\* END token's, the address-read token's and the data token's.
HwTokens == {0, I2C_TK_ADDRR, I2C_TK_DAT}

\* What the list processor may report when it stops: error bit, current
\* token and read count of the control register.
HwOutcomes ==
    [err : {1}, tok : HwTokens, rd : {0}] \cup [err : {0}, tok : {0}, rd : {0, 5}]

\* The read data registers after a read: bytes 1..4 and 5..8.
RDATA0 == 1 + 2 * 256 + 3 * 65536 + 4 * 16777216
RDATA1 == 5 + 6 * 256 + 7 * 65536 + 8 * 16777216

\* What a store through NULL may do, and what a load through NULL may give.
UbWrites == {"fault", "lost"}
UbReads ==
    {[fault |-> TRUE, byte |-> 0], [fault |-> FALSE, byte |-> 80],
     [fault |-> FALSE, byte |-> 200]}
NoUbRead == [fault |-> TRUE, byte |-> 0]

\* A driver handler's result R put in place; op names the handler.
DriverStep(R, op, timeout) ==
    /\ driver_context' = R.ctx
    /\ driver_ret_mem' = R.rmem
    /\ i2c_ifState' = R.ifs
    /\ interface' = R.hw
    /\ driver_fault' = R.fault
    /\ h_passes' = R.passes
    /\ server_pending' = IF R.notify_server > 0
                         THEN server_pending \cup {DRIVER_NOTIFY_ID}
                         ELSE server_pending
    /\ ev' = [NoEv EXCEPT
                 !.op = op, !.timeout = timeout,
                 !.busy = (i2c_ifState.current_req # NULL),
                 !.len = i2c_ifState.current_req_len,
                 !.pending = ~reqBufEmpty(driver_context),
                 !.popped = R.popped, !.pushed = R.pushed,
                 !.released = R.released, !.loads = R.loads,
                 !.notify_server = R.notify_server,
                 !.hw_err = Field(interface.ctl, 3, 1),
                 !.hw_tok = Field(interface.ctl, 4, 4)]
    /\ UNCHANGED << driver_req_mem, client_pending, server_fault, h_issued,
                    h_hw >>
    /\ UNCHANGED clientLinkVars

\* notified (i2c-odroid-c4.c:662-679) on SERVER_NOTIFY_ID.
driver_notified_server ==
    /\ ~driver_fault
    /\ driver_pending
    /\ driver_pending' = FALSE
    /\ DriverStep(serverNotify(DriverState), "serverNotify", 0)
    /\ UNCHANGED << irq_pending, irq_to_pending >>

\* notified on IRQ_I2C: i2cirq(0) and the acknowledgement.
driver_notified_irq ==
    /\ ~driver_fault
    /\ irq_pending
    /\ irq_pending' = FALSE
    /\ \E uw \in UbWrites, ur \in UbReads :
           DriverStep(i2cirq(DriverState, 0, uw, ur), "i2cirq", 0)
    /\ UNCHANGED << driver_pending, irq_to_pending >>

\* notified on IRQ_I2C_TO: i2cirq(1) and the acknowledgement.
driver_notified_timeout ==
    /\ ~driver_fault
    /\ irq_to_pending
    /\ irq_to_pending' = FALSE
    /\ DriverStep(i2cirq(DriverState, 1, "lost", NoUbRead), "i2cirq", 1)
    /\ UNCHANGED << driver_pending, irq_pending >>

\* The list processor stops and raises the completion interrupt.
HwComplete(o) ==
    /\ interface.ctl % 2 = 1
    /\ ~irq_pending
    /\ h_hw < MaxHw
    /\ h_hw' = h_hw + 1
    /\ interface' = [interface EXCEPT
                        !.ctl = 1 + 8 * o.err + 16 * o.tok + 256 * o.rd,
                        !.rdata0 = IF o.rd > 0 THEN RDATA0 ELSE @,
                        !.rdata1 = IF o.rd > 4 THEN RDATA1 ELSE @]
    /\ irq_pending' = TRUE
    /\ ev' = [NoEv EXCEPT !.op = "hwComplete"]
    /\ UNCHANGED << driver_context, driver_req_mem, driver_ret_mem,
                    i2c_ifState, server_pending, driver_pending,
                    client_pending, irq_to_pending, driver_fault,
                    server_fault, h_issued, h_passes >>
    /\ UNCHANGED clientLinkVars

\* The bus timeout raises the timeout interrupt.
HwTimeout ==
    /\ interface.ctl % 2 = 1
    /\ ~irq_to_pending
    /\ h_hw < MaxHw
    /\ h_hw' = h_hw + 1
    /\ irq_to_pending' = TRUE
    /\ ev' = [NoEv EXCEPT !.op = "hwTimeout"]
    /\ UNCHANGED << driver_context, driver_req_mem, driver_ret_mem,
                    i2c_ifState, interface, server_pending, driver_pending,
                    client_pending, irq_pending, driver_fault,
                    server_fault, h_issued, h_passes >>
    /\ UNCHANGED clientLinkVars

\* The server admits a request: serverAllocReqBuf on the driver context
\* (i2c.c:179) and the ping of i2c.c:199-204.  ub is what the stores through
\* a NULL slot pointer do.
ServerSubmit(stream, client, addr, ub) ==
    /\ ~server_fault
    /\ h_issued < MaxSubmits
    /\ h_issued' = h_issued + 1
    /\ LET r == serverAllocReqBuf(driver_context, driver_req_mem, Len(stream),
                                  stream, client, addr)
           null == ~ring_empty(driver_context.req_free)
                   /\ ring_head(driver_context.req_free).buf = NULL
       IN  IF null /\ ub = "fault"
           THEN /\ server_fault' = TRUE
                /\ driver_context' = [driver_context EXCEPT !.req_free = dequeue(@)]
                /\ UNCHANGED << driver_req_mem, driver_pending >>
                /\ ev' = [NoEv EXCEPT !.op = "submit", !.outcome = "fault"]
           ELSE /\ server_fault' = FALSE
                /\ driver_context' = r.ctx
                /\ driver_req_mem' = r.mem
                /\ driver_pending' = (driver_pending \/ ~reqBufEmpty(r.ctx))
                /\ ev' = [NoEv EXCEPT !.op = "submit", !.pushed = r.buf,
                                      !.client = client, !.addr = addr]
    /\ UNCHANGED << driver_ret_mem, server_pending, client_pending >>
    /\ UNCHANGED driverVars
    /\ UNCHANGED clientLinkVars

\* The server's end of driverNotify (i2c.c:103-110, 143): one return buffer
\* popped and released, then the ping of i2c.c:199-204.
ServerCollect ==
    /\ ~server_fault
    /\ DRIVER_NOTIFY_ID \in server_pending
    /\ server_pending' = server_pending \ {DRIVER_NOTIFY_ID}
    /\ LET ret == ring_head(driver_context.ret_used).buf
       IN  /\ driver_context' =
                IF retBufEmpty(driver_context) THEN driver_context
                ELSE releaseRetBuf([driver_context EXCEPT !.ret_used = dequeue(@)], ret)
           /\ ev' = [NoEv EXCEPT !.op = "collect", !.popped = ret]
    /\ driver_pending' = (driver_pending \/ ~reqBufEmpty(driver_context))
    /\ UNCHANGED << driver_req_mem, driver_ret_mem, client_pending,
                    server_fault, h_issued >>
    /\ UNCHANGED driverVars
    /\ UNCHANGED clientLinkVars

\* The ping of i2c.c:199-204 after a notification that admitted nothing.
ServerPing ==
    /\ ~server_fault
    /\ ~reqBufEmpty(driver_context)
    /\ ~driver_pending
    /\ driver_pending' = TRUE
    /\ ev' = [NoEv EXCEPT !.op = "ping"]
    /\ UNCHANGED << driver_context, driver_req_mem, driver_ret_mem,
                    server_pending, client_pending, server_fault, h_issued >>
    /\ UNCHANGED driverVars
    /\ UNCHANGED clientLinkVars

\* The driver with the list processor and the server's end of its context.
NextDriver ==
    \/ driver_notified_server
    \/ driver_notified_irq
    \/ driver_notified_timeout
    \/ \E o \in HwOutcomes : HwComplete(o)
    \/ HwTimeout
    \/ \E st \in Streams, c \in DriverClients, a \in DriverAddrs, ub \in UbWrites :
           ServerSubmit(st, c, a, ub)
    \/ ServerCollect
    \/ ServerPing

SpecDriver == Init /\ [][NextDriver]_vars

\* ------------------------------------------------ the driver's token codec

\* The longest write a slot holds: ADDRW and n DATA/byte pairs in the slot
\* less its two header bytes.
MaxPairs == (I2C_BUF_SZ - REQ_BUF_DAT_OFFSET - 1) \div 2

\* The driver loading write requests of every length 1..MaxPairs, each
\* pass ended by the list processor completing without error.
NextCodec ==
    \/ \E n \in 1 .. MaxPairs : ServerSubmit(WriteStream(n), 1, 80, "lost")
    \/ driver_notified_server
    \/ driver_notified_irq
    \/ HwComplete([err |-> 0, tok |-> 0, rd |-> 0])

SpecCodec == Init /\ [][NextCodec]_vars

\* ------------------------------------------------ reads of several loads

\* The longest run of DATA tokens a read request holds in a slot, with
\* ADDRR before and DATA_END after it.
MaxReadTokens == I2C_BUF_SZ - REQ_BUF_DAT_OFFSET - 2

\* A read of k DATA tokens: ADDRR, k times DATA, DATA_END.
LongRead(k) == << I2C_TK_ADDRR >> \o [i \in 1 .. k |-> I2C_TK_DAT]
                   \o << I2C_TK_DATA_END >>

\* What the list processor reports at the end of an error-free load: the
\* number of bytes it read.
ReadOutcomes == [err : {0}, tok : {0}, rd : {0, 3, 5}]

\* The server's end submits the one read request of a run.
ReadSubmit(k) == h_issued = 0 /\ ServerSubmit(LongRead(k), 1, 80, "lost")

\* The driver working on one read request of any length, every load ended
\* by the list processor completing without error.
NextRead ==
    \/ \E k \in 1 .. MaxReadTokens : ReadSubmit(k)
    \/ driver_notified_server
    \/ driver_notified_irq
    \/ \E o \in ReadOutcomes : HwComplete(o)

SpecRead == Init /\ [][NextRead]_vars

\* ------------------------------------------------ the server's return path

\* Client ids the driver's return buffers carry: the clients, and one no
\* context answers to.
ReturnClients == Clients \cup {200}

ReturnErrs == {I2C_ERR_OK, I2C_ERR_TIMEOUT, I2C_ERR_NACK, I2C_ERR_NOREAD}

\* driverNotify (i2c.c:100-144) on the server's state.  ub is what
\* memcpy(0, 0, sz) does when the client has no free return slot, and what
\* getRetBuf and the copy do on a context past the end of i2c_contexts
\* (i2c.c:135-138): a fault, or nothing that shows.  ctx is the index of
\* the element of i2c_contexts the handler used (-1: none).  The
\* result names the return buffer popped, its client and error bytes, the
\* client slot taken and the client notified (-1: none).
driverNotify(ub) ==
    LET nothing == [dctx |-> driver_context, contexts |-> i2c_contexts,
                    cmem |-> client_ret_mem, fault |-> FALSE, popped |-> NULL,
                    client |-> -1, err |-> 0, taken |-> NULL, notify |-> -1,
                    ctx |-> -1]
        ret == ring_head(driver_context.ret_used).buf
        popped == [driver_context EXCEPT !.ret_used = dequeue(@)]
        err == driver_ret_mem[ret].err
        client == driver_ret_mem[ret].client
        got == [nothing EXCEPT !.dctx = popped, !.popped = ret,
                               !.client = client, !.err = err]
        cret == getRetBuf(i2c_contexts[client])
    IN  IF retBufEmpty(driver_context) THEN nothing
        ELSE IF ret = NULL THEN [nothing EXCEPT !.dctx = popped]
        ELSE IF client >= 128
        THEN [got EXCEPT !.dctx = releaseRetBuf(@, ret)]
        ELSE IF err # 0
        THEN [got EXCEPT !.dctx = releaseRetBuf(@, ret)]
        ELSE IF client \notin Clients
        THEN IF ub = "fault"
             THEN [got EXCEPT !.fault = TRUE, !.ctx = client]
             ELSE [got EXCEPT !.ctx = client, !.notify = client,
                              !.dctx = releaseRetBuf(@, ret)]
        ELSE IF cret = NULL /\ ub = "fault"
        THEN [got EXCEPT !.fault = TRUE, !.ctx = client]
        ELSE [got EXCEPT
                 !.contexts = [@ EXCEPT ![client].ret_free = dequeue(@)],
                 !.ctx = client,
                 !.taken = cret,
                 !.notify = client,
                 !.dctx = releaseRetBuf(@, ret)]

\* notified (i2c.c:189-206) on the driver's channel: driverNotify, then the
\* ping of the driver when its request ring holds work.
server_notified_driver ==
    /\ ~server_fault
    /\ DRIVER_NOTIFY_ID \in server_pending
    /\ server_pending' = server_pending \ {DRIVER_NOTIFY_ID}
    /\ \E ub \in UbWrites :
         LET r == driverNotify(ub)
             ping == ~r.fault /\ ~reqBufEmpty(r.dctx)
         IN  /\ driver_context' = r.dctx
             /\ i2c_contexts' = r.contexts
             /\ client_ret_mem' = r.cmem
             /\ server_fault' = r.fault
             /\ client_pending' = IF r.notify \in Clients
                                  THEN client_pending \cup {r.notify}
                                  ELSE client_pending
             /\ driver_pending' = (driver_pending \/ ping)
             /\ ev' = [NoEv EXCEPT
                          !.op = "driverNotify", !.popped = r.popped,
                          !.client = r.client, !.result = r.err,
                          !.ctx = r.ctx,
                          !.pushed = r.taken,
                          !.outcome = IF r.fault THEN "fault" ELSE "none",
                          !.notify_client = r.notify,
                          !.notify_driver = IF ping THEN 1 ELSE 0]
    /\ UNCHANGED << security_list, client_req_mem, driver_req_mem,
                    driver_ret_mem, h_claimed, h_issued >>
    /\ UNCHANGED driverVars

\* The driver's end of the return path (i2c-odroid-c4.c:636-650): a return
\* slot filled in for client with error code err, pushed, and the server
\* notified.
DriverReturn(client, err) ==
    /\ ~ring_empty(driver_context.ret_free)
    /\ LET ret == getRetBuf(driver_context)
       IN  /\ driver_ret_mem' =
                 [driver_ret_mem EXCEPT ![ret].client = client,
                                        ![ret].addr = 80,
                                        ![ret].err = err,
                                        ![ret].err_tk = 0]
           /\ driver_context' =
                 pushRetBuf([driver_context EXCEPT !.ret_free = dequeue(@)], ret)
           /\ ev' = [NoEv EXCEPT !.op = "driverReturn", !.pushed = ret,
                                 !.client = client, !.result = err]
    /\ server_pending' = server_pending \cup {DRIVER_NOTIFY_ID}
    /\ UNCHANGED << driver_req_mem, driver_pending, client_pending,
                    server_fault, h_issued >>
    /\ UNCHANGED clientLinkVars
    /\ UNCHANGED driverVars

\* notified of the client (i2c-client.c:23-25): the notification is taken
\* and nothing is done with it.
client_notified(c) ==
    /\ c \in client_pending
    /\ client_pending' = client_pending \ {c}
    /\ ev' = [NoEv EXCEPT !.op = "clientNotified", !.channel = c]
    /\ UNCHANGED << security_list, i2c_contexts, client_req_mem,
                    client_ret_mem, driver_context, driver_req_mem,
                    driver_ret_mem, server_pending, driver_pending,
                    server_fault, h_claimed, h_issued >>
    /\ UNCHANGED driverVars

\* The server between the driver's returns and its clients.
NextReturn ==
    \/ \E c \in ReturnClients, e \in ReturnErrs : DriverReturn(c, e)
    \/ server_notified_driver
    \/ \E c \in Clients : client_notified(c)

SpecReturn == Init /\ [][NextReturn]_vars

\* A notification raised on a channel no client is bound to.
StrayNotify(c) ==
    /\ c \in StrayChannels
    /\ c \notin server_pending
    /\ server_pending' = server_pending \cup {c}
    /\ ev' = [NoEv EXCEPT !.op = "strayNotify", !.channel = c]
    /\ UNCHANGED << security_list, i2c_contexts, client_req_mem,
                    client_ret_mem, driver_context, driver_req_mem,
                    driver_ret_mem, client_pending, driver_pending,
                    server_fault, h_claimed, h_issued >>
    /\ UNCHANGED driverVars

\* Client ids of the return buffers when the driver answers for a channel
\* past the clients as well: a client, the first id past the clients, and
\* one the server's check turns away.
StrayClients == {0, NUM_CLIENTS, 200}

\* The server between returns and notifications that name no client of
\* its own and the clients.
NextStray ==
    \/ \E c \in StrayChannels : StrayNotify(c)
    \/ \E c \in Channels : server_notified_client(c)
    \/ \E c \in StrayClients, e \in {I2C_ERR_OK, I2C_ERR_NACK} :
           DriverReturn(c, e)
    \/ server_notified_driver
    \/ \E c \in Clients : client_notified(c)

SpecStray == Init /\ [][NextStray]_vars

\* The same with the kernel's delivery of notifications: a notification
\* that stays pending for the server or for a client is delivered.  The
\* driver is under no obligation to complete further transactions.
SpecReturnFair ==
    /\ SpecReturn
    /\ WF_vars(server_notified_driver)
    /\ \A c \in Clients : WF_vars(client_notified(c))

\* ------------------------------------------------ the transport on its own

\* Payload sizes a caller asks for: one that fits, and the first past the
\* slot's budget.
TransportSizes == {2, I2C_BUF_SZ - REQ_BUF_DAT_OFFSET + 1}

\* What every transport call below leaves alone.
TransportFrame ==
    /\ h_issued < MaxOps
    /\ h_issued' = h_issued + 1
    /\ UNCHANGED << security_list, client_ret_mem, driver_ret_mem,
                    server_pending, driver_pending, client_pending,
                    server_fault, h_claimed >>
    /\ UNCHANGED driverVars

\* serverAllocReqBuf (i2c-transport.c:33-63) on the driver context.
TServerAlloc(size, client, addr) ==
    /\ TransportFrame
    /\ LET r == serverAllocReqBuf(driver_context, driver_req_mem, size,
                                  ClientData, client, addr)
       IN  /\ driver_context' = r.ctx
           /\ driver_req_mem' = r.mem
           /\ ev' = [NoEv EXCEPT !.op = "serverAlloc", !.len = size,
                                 !.pushed = r.buf,
                                 !.result = IF r.buf = NULL THEN -1 ELSE 0]
    /\ UNCHANGED << i2c_contexts, client_req_mem >>

\* clientAllocReqBuf (i2c-transport.c:65-145) on client c's context.
TClientAlloc(c, size, addr, mode) ==
    /\ TransportFrame
    /\ LET r == clientAllocReqBuf(i2c_contexts[c], client_req_mem[c], size,
                                  ClientData, addr, mode)
       IN  /\ i2c_contexts' = [i2c_contexts EXCEPT ![c] = r.ctx]
           /\ client_req_mem' = [client_req_mem EXCEPT ![c] = r.mem]
           /\ ev' = [NoEv EXCEPT !.op = "clientAlloc", !.len = size,
                                 !.channel = c, !.req = mode,
                                 !.pushed = r.buf,
                                 !.result = IF r.buf = NULL THEN -1 ELSE 0]
    /\ UNCHANGED << driver_context, driver_req_mem >>

\* A call that only moves descriptors of the driver context: op names it,
\* ctx is the context afterwards, buf the slot it handed out or took, rc
\* its status.
TRingCall(op, ctx, buf, rc) ==
    /\ TransportFrame
    /\ driver_context' = ctx
    /\ ev' = [NoEv EXCEPT !.op = op, !.popped = buf, !.result = rc]
    /\ UNCHANGED << i2c_contexts, client_req_mem, driver_req_mem >>

\* popReqBuf (i2c-transport.c:177-180).
TPopReq ==
    TRingCall("popReqBuf", [driver_context EXCEPT !.req_used = dequeue(@)],
              ring_head(driver_context.req_used).buf,
              dequeue_rc(driver_context.req_used))

\* popRetBuf (i2c-transport.c:182-185).
TPopRet ==
    TRingCall("popRetBuf", [driver_context EXCEPT !.ret_used = dequeue(@)],
              ring_head(driver_context.ret_used).buf,
              dequeue_rc(driver_context.ret_used))

\* getRetBuf (i2c-transport.c:147-157).
TGetRet ==
    TRingCall("getRetBuf", [driver_context EXCEPT !.ret_free = dequeue(@)],
              getRetBuf(driver_context), dequeue_rc(driver_context.ret_free))

\* pushRetBuf (i2c-transport.c:159-166).
TPushRet(buf) ==
    TRingCall("pushRetBuf", pushRetBuf(driver_context, buf), buf,
              enqueue_rc(driver_context.ret_used))

\* releaseReqBuf (i2c-transport.c:197-200).
TReleaseReq(buf) ==
    TRingCall("releaseReqBuf", releaseReqBuf(driver_context, buf), buf,
              enqueue_rc(driver_context.req_free))

\* releaseRetBuf (i2c-transport.c:202-205).
TReleaseRet(buf) ==
    TRingCall("releaseRetBuf", releaseRetBuf(driver_context, buf), buf,
              enqueue_rc(driver_context.ret_free))

\* Any sequence of transport calls after i2cTransportInit.
NextTransport ==
    \/ \E size \in TransportSizes : TServerAlloc(size, 0, 80)
    \/ \E size \in TransportSizes, mode \in {I2C_MODE_WRITE, I2C_MODE_READ} :
           TClientAlloc(0, size, 80, mode)
    \/ TPopReq
    \/ TPopRet
    \/ TGetRet
    \/ \E buf \in RetSlots : TPushRet(buf)
    \/ \E buf \in ReqSlots : TReleaseReq(buf)
    \/ \E buf \in RetSlots : TReleaseRet(buf)

SpecTransport == Init /\ [][NextTransport]_vars

\* ------------------------------------------------- claims about the server

\* The last step was clientNotify popping a request of channel c for addr.
PoppedByClientNotify == ev.op = "clientNotify" /\ ev.popped # NULL

C2_ClaimThenForward ==
    [][(ev'.op = "clientNotify" /\ ev'.popped # NULL /\ ev'.addr \in 0 .. 127
          /\ h_claimed[ev'.addr] # -1)
         => IF h_claimed[ev'.addr] = ev'.channel
            THEN ev'.room =>
                   Len(driver_context'.req_used) = Len(driver_context.req_used) + 1
            ELSE driver_context'.req_used = driver_context.req_used]_vars

\* C3: a CLAIM call for an address in 0..127 succeeds and records the client
\* when the address is unclaimed, and fails leaving the list as it was when
\* the address is claimed.
C3_Claim ==
    [][(ev'.op = "protected" /\ ev'.req = I2C_PPC_CLAIM /\ ev'.addr \in 0 .. 127)
         => IF security_list[ev'.addr] = -1
            THEN /\ ev'.result = PPC_OK
                 /\ security_list' = [security_list EXCEPT ![ev'.addr] = ev'.client]
            ELSE /\ ev'.result # PPC_OK
                 /\ security_list' = security_list]_vars

\* C4: a RELEASE call for an address in 0..127 succeeds and sets the address
\* back to unclaimed exactly when the list's owner of the address is the
\* given client; otherwise it fails and leaves the list as it was.
C4_Release ==
    [][(ev'.op = "protected" /\ ev'.req = I2C_PPC_RELEASE /\ ev'.addr \in 0 .. 127)
         => IF security_list[ev'.addr] = ev'.client
            THEN /\ ev'.result = PPC_OK
                 /\ security_list' = [security_list EXCEPT ![ev'.addr] = -1]
            ELSE /\ ev'.result # PPC_OK
                 /\ security_list' = security_list]_vars

\* ------------------------------------------------- claims about the driver

\* The last descriptor of ring r (NULL on an empty ring).
LastBuf(r) == IF Len(r) = 0 THEN NULL ELSE r[Len(r)].buf

\* C5: while current_req is set, a server notification pops nothing from the
\* request-used ring, leaves the hardware registers, the rings and the return
\* memory as they were and sends nothing; of the interface state it changes
\* only the notified flag, which it never lowers and sets to 1 when a request
\* is pending.
C5_BusyNotifyDefers ==
    [][(ev'.op = "serverNotify" /\ i2c_ifState.current_req # NULL)
         => /\ driver_context' = driver_context
            /\ interface' = interface
            /\ driver_ret_mem' = driver_ret_mem
            /\ i2c_ifState' =
                 [i2c_ifState EXCEPT !.notified = i2c_ifState'.notified]
            /\ i2c_ifState'.notified >= i2c_ifState.notified
            /\ (~reqBufEmpty(driver_context) => i2c_ifState'.notified = 1)
            /\ ev'.notify_server = 0]_vars

\* C5's case: the driver was notified with a request pending while another
\* was in flight; the request is still queued and the flag is up.
C5_Witness ==
    /\ ev.op = "serverNotify"
    /\ ev.busy
    /\ ev.pending
    /\ ev.popped = NULL
    /\ ev.loads = 0
    /\ i2c_ifState.current_req # NULL
    /\ i2c_ifState.notified = 1
    /\ ~reqBufEmpty(driver_context)

\* C6: when the completion IRQ ends the in-flight transaction with the
\* notified flag set and a request pending in the request-used ring, the
\* handler pops that request, makes it current_req and loads it.
C6_StartsPending ==
    [][(/\ ev'.op = "i2cirq"
        /\ ev'.timeout = 0
        /\ i2c_ifState.current_req # NULL
        /\ ev'.released = i2c_ifState.current_req
        /\ i2c_ifState.notified = 1
        /\ ~reqBufEmpty(driver_context))
         => /\ i2c_ifState'.current_req = ring_head(driver_context.req_used).buf
            /\ driver_context'.req_used = dequeue(driver_context.req_used)
            /\ ev'.loads >= 1]_vars

\* C7: every IRQ handler run that ends the in-flight transaction (by success,
\* NACK or timeout) pushes its return buffer to the return-used ring and
\* notifies the server exactly once.
C7_EndNotifies ==
    [][(/\ ev'.op = "i2cirq"
        /\ i2c_ifState.current_req # NULL
        /\ i2c_ifState'.current_req = NULL)
         => /\ LastBuf(driver_context'.ret_used) = i2c_ifState.current_ret
            /\ ev'.notify_server = 1]_vars

\* C8: a handler run that leaves the in-flight request in flight notifies
\* nobody, and when it is a completion IRQ (the request being one the driver
\* accepted, its address in 0..127) it loads the next pass; the
\* completion IRQ that ends the request notifies the server once; a 10-byte
\* write that ends without a NACK has taken exactly two passes.
C8_Passes ==
    [][(ev'.op \in {"i2cirq", "serverNotify"} /\ i2c_ifState.current_req # NULL)
         => IF i2c_ifState'.current_req = i2c_ifState.current_req
            THEN /\ ev'.notify_server = 0
                 /\ (/\ ev'.op = "i2cirq"
                     /\ ByteAt(driver_req_mem, i2c_ifState.current_req,
                               REQ_BUF_ADDR) <= 127) =>
                      /\ ev'.loads = 1
                      /\ h_passes' = h_passes + 1
                      /\ interface'.ctl % 2 = 1
            ELSE /\ ev'.timeout = 0 => ev'.notify_server = 1
                 /\ (/\ ev'.timeout = 0
                     /\ i2cGetError(interface.ctl) >= 0
                     /\ i2c_ifState.current_req_len = Len(WriteStream(10)))
                      => h_passes = 2]_vars

\* C8's case: the completion IRQ of the second pass of a 10-byte write ended
\* the request and notified the server.
C8_Witness ==
    /\ ev.op = "i2cirq"
    /\ ev.timeout = 0
    /\ ev.busy
    /\ ev.len = Len(WriteStream(10))
    /\ ev.hw_err = 0
    /\ ev.released # NULL
    /\ ev.loads = 0
    /\ ev.notify_server = 1
    /\ h_passes = 2

\* C9: a timeout IRQ with a transaction in flight appends the transaction's
\* return buffer, marked TIMEOUT with error token 0, to the return-used ring,
\* appends the request buffer to the request-free ring, and resets
\* current_req, current_ret, current_req_len and remaining.
C9_Timeout ==
    [][(/\ ev'.op = "i2cirq"
        /\ ev'.timeout = 1
        /\ i2c_ifState.current_req # NULL)
         => /\ Len(driver_context'.ret_used) = Len(driver_context.ret_used) + 1
            /\ LastBuf(driver_context'.ret_used) = i2c_ifState.current_ret
            /\ i2c_ifState.current_ret # NULL
            /\ driver_ret_mem'[i2c_ifState.current_ret].err = I2C_ERR_TIMEOUT
            /\ driver_ret_mem'[i2c_ifState.current_ret].err_tk = 0
            /\ Len(driver_context'.req_free) = Len(driver_context.req_free) + 1
            /\ LastBuf(driver_context'.req_free) = i2c_ifState.current_req
            /\ i2c_ifState'.current_req = NULL
            /\ i2c_ifState'.current_ret = NULL
            /\ i2c_ifState'.current_req_len = 0
            /\ i2c_ifState'.remaining = 0]_vars

\* C9's case: the timeout handler ran with a transaction in flight and the
\* TIMEOUT return is the newest of the return-used ring.
C9_Witness ==
    /\ ev.op = "i2cirq"
    /\ ev.timeout = 1
    /\ ev.busy
    /\ ev.pushed # NULL
    /\ LastBuf(driver_context.ret_used) = ev.pushed
    /\ driver_ret_mem[ev.pushed].err = I2C_ERR_TIMEOUT
    /\ i2c_ifState.current_req = NULL

\* C10: a completion IRQ that finds the error bit set with current token k,
\* a transaction being in flight, pushes the transaction's return buffer with
\* error code NO_READ when k is the address-read token and NACK otherwise,
\* and error token k.
C10_NackReport ==
    [][(/\ ev'.op = "i2cirq"
        /\ ev'.timeout = 0
        /\ i2c_ifState.current_req # NULL
        /\ Field(interface.ctl, 3, 1) = 1)
         => /\ ev'.pushed = i2c_ifState.current_ret
            /\ LastBuf(driver_context'.ret_used) = i2c_ifState.current_ret
            /\ driver_ret_mem'[i2c_ifState.current_ret].err =
                 (IF Field(interface.ctl, 4, 4) = I2C_TK_ADDRR
                  THEN I2C_ERR_NOREAD ELSE I2C_ERR_NACK)
            /\ driver_ret_mem'[i2c_ifState.current_ret].err_tk =
                 Field(interface.ctl, 4, 4)]_vars

\* The slots a ring holds.
RingBufs(r) == {r[i].buf : i \in 1 .. Len(r)}

\* C11: a server notification that makes a request with address byte above
\* 127 the current request leaves every hardware register (address, token
\* lists, write data, control) as it was, and the list processor stopped.
C11_NoHwWrite ==
    [][(/\ ev'.op = "serverNotify"
        /\ ev'.popped # NULL
        /\ i2c_ifState'.current_req = ev'.popped
        /\ ByteAt(driver_req_mem, ev'.popped, REQ_BUF_ADDR) > 127)
         => /\ interface' = interface
            /\ ev'.loads = 0]_vars

\* C11's case: a request for address 200 was popped and is the current
\* request; nothing was loaded and the list processor is stopped.
C11_Witness ==
    /\ ev.op = "serverNotify"
    /\ ev.popped # NULL
    /\ i2c_ifState.current_req = ev.popped
    /\ ByteAt(driver_req_mem, ev.popped, REQ_BUF_ADDR) = 200
    /\ ev.loads = 0
    /\ interface.ctl % 2 = 0

\* C12: a server notification that pops a request and does not start it (no
\* return slot, invalid size, address above 127, unrecognized token) leaves
\* the request slot in the request-free ring, takes no slot out of the
\* return-free ring, and leaves no in-flight request.
C12_FailureRecovers ==
    [][(/\ ev'.op = "serverNotify"
        /\ ~ev'.busy
        /\ ev'.popped # NULL
        /\ ev'.loads = 0)
         => /\ ev'.popped \in RingBufs(driver_context'.req_free)
            /\ RingBufs(driver_context.ret_free)
                 \subseteq RingBufs(driver_context'.ret_free)
            /\ i2c_ifState'.current_req = NULL]_vars

\* How often slot b occurs in ring r, and in the four rings of context ctx.
CountIn(r, b) == Cardinality({i \in 1 .. Len(r) : r[i].buf = b})

CtxCount(ctx, b) ==
    CountIn(ctx.req_free, b) + CountIn(ctx.req_used, b)
      + CountIn(ctx.ret_free, b) + CountIn(ctx.ret_used, b)

\* How often the driver holds slot b as its in-flight request or return.
DriverHeld(b) ==
    (IF i2c_ifState.current_req = b THEN 1 ELSE 0)
      + (IF i2c_ifState.current_ret = b THEN 1 ELSE 0)

\* C13: between handler runs every slot of every transport context is in
\* exactly one place: once in one ring of its context, or held by the driver
\* as its in-flight request or return buffer (no other component keeps a
\* slot across handler runs).
C13_OnePlace ==
    /\ \A b \in ReqSlots \cup RetSlots :
         CtxCount(driver_context, b) + DriverHeld(b) = 1
    /\ \A c \in Clients : \A b \in ReqSlots \cup RetSlots :
         CtxCount(i2c_contexts[c], b) = 1

\* ------------------------------------------- claims about the transport

\* The four rings of a context, in declaration order.
RingsOf(ctx) == << ctx.req_free, ctx.req_used, ctx.ret_free, ctx.ret_used >>

\* Every ring of the driver context and of client 0's context, before and
\* after a step.
RingPairs ==
    {<< RingsOf(driver_context)[k], RingsOf(driver_context')[k] >> : k \in 1 .. 4}
    \cup {<< RingsOf(i2c_contexts[0])[k], RingsOf(i2c_contexts'[0])[k] >> : k \in 1 .. 4}

\* C14: over every sequence of transport calls after initialisation, each
\* ring holds between 0 and its capacity of descriptors, and a step taken on
\* a full ring leaves its entries as they were or removes the oldest one: an
\* enqueue into it adds nothing and overwrites nothing, and a release or a
\* push onto a full ring reports failure.
C14_RingBounded ==
    [][/\ \A p \in RingPairs :
             /\ Len(p[2]) \in 0 .. RingCap
             /\ Len(p[1]) = RingCap => (p[2] = p[1] \/ p[2] = Tail(p[1]))
       /\ (ev'.op = "releaseReqBuf" /\ Len(driver_context.req_free) = RingCap)
             => ev'.result = -1
       /\ (ev'.op = "releaseRetBuf" /\ Len(driver_context.ret_free) = RingCap)
             => ev'.result = -1]_vars

C14_Witness ==
    /\ ev.op = "releaseReqBuf"
    /\ ev.result = -1
    /\ Len(driver_context.req_free) = RingCap

\* C15: when releaseRetBuf is called twice in a row with the same return
\* buffer, the first call having put it on the return-free ring once, the
\* second call does not put it there again: the ring still holds that
\* slot's descriptor once.
C15_ReleaseTwice ==
    [][(/\ ev.op = "releaseRetBuf"
        /\ ev'.op = "releaseRetBuf"
        /\ ev'.popped = ev.popped
        /\ CountIn(driver_context.ret_free, ev.popped) = 1)
         => CountIn(driver_context'.ret_free, ev'.popped) = 1]_vars

\* C16: a serverAllocReqBuf or clientAllocReqBuf call whose payload size is
\* above the slot size less the two header bytes fails, and leaves every
\* ring and every slot byte of both contexts as they were.
C16_OversizeNoEffect ==
    [][(/\ ev'.op \in {"serverAlloc", "clientAlloc"}
        /\ ev'.len > I2C_BUF_SZ - REQ_BUF_DAT_OFFSET)
         => /\ ev'.result = -1
            /\ ev'.pushed = NULL
            /\ driver_context' = driver_context
            /\ driver_req_mem' = driver_req_mem
            /\ i2c_contexts' = i2c_contexts
            /\ client_req_mem' = client_req_mem]_vars

C16_Witness ==
    /\ ev.op = "serverAlloc"
    /\ ev.len > I2C_BUF_SZ - REQ_BUF_DAT_OFFSET
    /\ ev.result = -1
    /\ ~ring_empty(driver_context.req_free)

\* ------------------------------------------- claims about the codec

\* Token slot k (0..15) of the token list registers hw, decoded.
TokenSlot(hw, k) ==
    IF k < 8 THEN Field(hw.tk_list0, 4 * k, 4)
    ELSE Field(hw.tk_list1, 4 * (k - 8), 4)

\* Lane j (0..7) of the write data registers hw.
DataLane(hw, j) ==
    IF j < 4 THEN Field(hw.wdata0, 8 * j, 8)
    ELSE Field(hw.wdata1, 8 * (j - 4), 8)

Min(a, b) == IF a < b THEN a ELSE b

\* C17: for a request whose token stream is ADDRW followed by n DATA/byte
\* pairs, each LOADING pass programs the registers so that they decode to
\* the next part of the stream: ADDRW first if the pass is the request's
\* first, then a DATA token for each of the next min(8, pairs left) pairs
\* with that pair's byte in the lane of the same number, END in every other
\* token slot and 0 in every other lane; the pass leaves the pairs after
\* those for the next pass, so the passes together give exactly n DATA
\* tokens and the bytes b0..b(n-1) in order.
C17_RoundTrip ==
    [][(/\ ev'.loads > 0
        /\ i2c_ifState'.current_req # NULL
        /\ ByteAt(driver_req_mem, i2c_ifState'.current_req, REQ_BUF_DAT_OFFSET)
               = I2C_TK_ADDRW)
         => LET req == i2c_ifState'.current_req
                len == i2c_ifState'.current_req_len
                n == (len - 1) \div 2
                start == IF ev'.op = "serverNotify" THEN 0
                         ELSE i2c_ifState.current_req_len - i2c_ifState.remaining
                first == IF start = 0 THEN 1 ELSE 0
                k0 == IF start = 0 THEN 0 ELSE (start - 1) \div 2
                nd == Min(8, n - k0)
            IN  /\ first = 1 => TokenSlot(interface', 0) = OC4_I2C_TK_ADDRW
                /\ \A k \in 0 .. 15 :
                       IF k < first THEN TRUE
                       ELSE IF k < first + nd
                       THEN TokenSlot(interface', k) = OC4_I2C_TK_DATA
                       ELSE TokenSlot(interface', k) = OC4_I2C_TK_END
                /\ \A j \in 0 .. 7 :
                       DataLane(interface', j) =
                           IF j < nd
                           THEN ByteAt(driver_req_mem, req,
                                       REQ_BUF_DAT_OFFSET + 2 * (k0 + j) + 2)
                           ELSE 0
                /\ i2c_ifState'.remaining =
                       IF k0 + nd = n THEN 0 ELSE len - (1 + 2 * (k0 + nd))]_vars

\* The second pass of a 9-pair write: one DATA token, byte b8 in lane 0.
C17_Witness ==
    /\ ev.op = "i2cirq"
    /\ ev.loads = 1
    /\ i2c_ifState.current_req # NULL
    /\ i2c_ifState.current_req_len = 19
    /\ i2c_ifState.remaining = 0
    /\ TokenSlot(interface, 0) = OC4_I2C_TK_DATA
    /\ TokenSlot(interface, 1) = OC4_I2C_TK_END
    /\ DataLane(interface, 0) = 25

\* ------------------------------------ claims about request synthesis

\* C18: after a successful clientAllocReqBuf for a write of n payload bytes
\* the slot holds ADDRW and then, for each i below n, the pair DATA, b_i.
C18_WriteStream ==
    [][(/\ ev'.op = "clientAlloc"
        /\ ev'.req = I2C_MODE_WRITE
        /\ ev'.pushed # NULL)
         => LET m == client_req_mem'[ev'.channel]
                b == ev'.pushed
            IN  /\ ByteAt(m, b, REQ_BUF_DAT_OFFSET) = I2C_TK_ADDRW
                /\ \A i \in 0 .. ev'.len - 1 :
                       /\ ByteAt(m, b, REQ_BUF_DAT_OFFSET + 1 + 2 * i) = I2C_TK_DAT
                       /\ ByteAt(m, b, REQ_BUF_DAT_OFFSET + 2 + 2 * i)
                              = ClientData[i + 1]]_vars

\* C19: after a successful clientAllocReqBuf for a read of n bytes the slot
\* holds ADDRR, then DATA in every byte up to the DATA_END it wrote at
\* offset n of the token stream, with nothing else in between.
C19_ReadStream ==
    [][(/\ ev'.op = "clientAlloc"
        /\ ev'.req = I2C_MODE_READ
        /\ ev'.pushed # NULL)
         => LET m == client_req_mem'[ev'.channel]
                b == ev'.pushed
            IN  /\ ByteAt(m, b, REQ_BUF_DAT_OFFSET) = I2C_TK_ADDRR
                /\ ByteAt(m, b, REQ_BUF_DAT_OFFSET + ev'.len) = I2C_TK_DATA_END
                /\ \A i \in 1 .. ev'.len - 1 :
                       ByteAt(m, b, REQ_BUF_DAT_OFFSET + i) = I2C_TK_DAT]_vars

\* ------------------------------------- claims about the return path

\* C20: when driverNotify pops a return buffer whose error byte is OK and
\* whose client byte names a client, that client having a free return slot,
\* the slot leaves the client's return-free ring, holds the driver return
\* buffer's contents, is on the client's return-used ring, and the client,
\* and no other, is notified.
C20_ReturnDelivered ==
    [][(/\ ev'.op = "driverNotify"
        /\ ev'.popped # NULL
        /\ ev'.result = I2C_ERR_OK
        /\ ev'.client \in Clients
        /\ ~ring_empty(i2c_contexts[ev'.client].ret_free))
         => LET c == ev'.client
                slot == ring_head(i2c_contexts[c].ret_free).buf
            IN  /\ i2c_contexts'[c].ret_free = Tail(i2c_contexts[c].ret_free)
                /\ client_ret_mem'[c][slot] = driver_ret_mem[ev'.popped]
                /\ slot \in RingBufs(i2c_contexts'[c].ret_used)
                /\ client_pending' = client_pending \cup {c}]_vars

\* C21: when driverNotify pops a return buffer whose error byte is not OK
\* and whose client byte names a client, that client having a free return
\* slot, a slot on the client's return-used ring afterwards carries the
\* error code and error token the driver wrote.
C21_ErrorDelivered ==
    [][(/\ ev'.op = "driverNotify"
        /\ ev'.popped # NULL
        /\ ev'.result # I2C_ERR_OK
        /\ ev'.client \in Clients
        /\ ~ring_empty(i2c_contexts[ev'.client].ret_free))
         => \E slot \in RingBufs(i2c_contexts'[ev'.client].ret_used) :
                /\ client_ret_mem'[ev'.client][slot].err
                       = driver_ret_mem[ev'.popped].err
                /\ client_ret_mem'[ev'.client][slot].err_tk
                       = driver_ret_mem[ev'.popped].err_tk]_vars

\* C22: whenever driverNotify pops a return slot from the driver context
\* and returns, the slot is on the driver context's return-free ring, once,
\* and no longer on its return-used ring, whether the buffer reported
\* success, an error or a client id no client has.
C22_ReturnSlotReleased ==
    [][(/\ ev'.op = "driverNotify"
        /\ ev'.popped # NULL
        /\ ev'.outcome # "fault")
         => /\ CountIn(driver_context'.ret_free, ev'.popped) = 1
            /\ CountIn(driver_context'.ret_used, ev'.popped) = 0]_vars

\* The invalid-client branch taken, after a success and an error were.
C22_Witness ==
    /\ ev.op = "driverNotify"
    /\ ev.popped # NULL
    /\ ev.client = 200
    /\ CountIn(driver_context.ret_free, ev.popped) = 1
    /\ client_pending # {}

\* C23: the completion of a transaction is routed to the client named by
\* the client byte of its return buffer (the id serverAllocReqBuf wrote on
\* admission and checkBuf copied), and to that client only: when
\* driverNotify pops a return buffer whose client byte names a client, that
\* client is notified by the handler and no other client is.
C23_RoutedToAdmitter ==
    [][(/\ ev'.op = "driverNotify"
        /\ ev'.popped # NULL
        /\ ev'.outcome # "fault"
        /\ driver_ret_mem[ev'.popped].client \in Clients)
         => /\ ev'.notify_client = driver_ret_mem[ev'.popped].client
            /\ client_pending' =
                 client_pending \cup {driver_ret_mem[ev'.popped].client}]_vars

\* ------------------------------------------ claims about admission

\* C24: when clientNotify pops a request that passes the ownership test
\* while the driver context's request-free ring is empty, the driver
\* context's request-used ring and request memory stay as they were, the
\* client's slot is back on the client's request-free ring, and the request
\* is kept nowhere for a later attempt: the slot is on no used ring.
C24_FullPoolDrops ==
    [][(/\ ev'.op = "clientNotify"
        /\ ev'.popped # NULL
        /\ ev'.owner = ev'.channel
        /\ ring_empty(driver_context.req_free))
         => /\ driver_context'.req_used = driver_context.req_used
            /\ driver_req_mem' = driver_req_mem
            /\ CountIn(i2c_contexts'[ev'.channel].req_free, ev'.popped)
                 = CountIn(i2c_contexts[ev'.channel].req_free, ev'.popped) + 1
            /\ CountIn(i2c_contexts'[ev'.channel].req_used, ev'.popped) = 0
            /\ ev'.outcome = "no_buffer"]_vars

C24_Witness ==
    /\ ev.op = "clientNotify"
    /\ ev.popped # NULL
    /\ ev.owner = ev.channel
    /\ ev.outcome = "no_buffer"
    /\ ring_empty(driver_context.req_free)
    /\ ev.popped \in RingBufs(i2c_contexts[ev.channel].req_free)

\* C25: every request slot clientNotify pops from a client's request-used
\* ring is on that client's request-free ring, once, when the handler
\* returns, whether the request was dismissed or forwarded to the driver.
C25_RequestSlotReleased ==
    [][(ev'.op = "clientNotify" /\ ev'.popped # NULL)
         => /\ CountIn(i2c_contexts'[ev'.channel].req_free, ev'.popped) = 1
            /\ CountIn(i2c_contexts'[ev'.channel].req_used, ev'.popped) = 0]_vars

\* C26: the request clientNotify enqueues for the driver on admission holds
\* the admitting channel's id, the target address, and then the client
\* request's token stream, that is the bytes of the client's slot after its
\* two header bytes, for the whole length the driver descriptor records
\* beyond the header.
C26_ForwardedLayout ==
    [][(ev'.op = "clientNotify" /\ ev'.outcome = "forwarded")
         => LET c == ev'.channel
                d == LastBuf(driver_context'.req_used)
                sz == driver_context'.req_used[Len(driver_context'.req_used)].sz
            IN  /\ ByteAt(driver_req_mem', d, REQ_BUF_CLIENT) = c
                /\ ByteAt(driver_req_mem', d, REQ_BUF_ADDR) = ev'.addr
                /\ \A i \in 0 .. sz - REQ_BUF_DAT_OFFSET - 1 :
                       ByteAt(driver_req_mem', d, REQ_BUF_DAT_OFFSET + i)
                         = ByteAt(client_req_mem[c], ev'.popped,
                                  REQ_BUF_DAT_OFFSET + i)]_vars

\* C27: the descriptor a successful clientAllocReqBuf pushes to the
\* request-used ring for a write of n bytes records the header and the whole
\* synthesized stream, ADDRW and n DATA/byte pairs: REQ_BUF_DAT_OFFSET + 1
\* + 2n bytes; for a read of n bytes it records the header and the stream up
\* to and including the DATA_END written at offset n of the stream.
C27_DescriptorSize ==
    [][(/\ ev'.op = "clientAlloc"
        /\ ev'.pushed # NULL)
         => LET r == i2c_contexts'[ev'.channel].req_used
            IN  /\ LastBuf(r) = ev'.pushed
                /\ r[Len(r)].sz =
                     IF ev'.req = I2C_MODE_WRITE
                     THEN REQ_BUF_DAT_OFFSET + 1 + 2 * ev'.len
                     ELSE REQ_BUF_DAT_OFFSET + ev'.len + 1]_vars

\* ------------------------------------- claims about the IRQ handler

\* C28: a completion IRQ handled while the driver holds no request and no
\* return buffer leaves the four rings as they were, does not fault on a
\* store through the null return-buffer pointer, and sends the server no
\* notification.
C28_IdleIrqHarmless ==
    [][(/\ ev'.op = "i2cirq"
        /\ ev'.timeout = 0
        /\ i2c_ifState.current_req = NULL
        /\ i2c_ifState.current_ret = NULL)
         => /\ driver_context' = driver_context
            /\ ~driver_fault'
            /\ ev'.notify_server = 0]_vars

\* C29: a completion IRQ taken with the hardware error bit set and a
\* transaction in flight ends that transaction and leaves an error code
\* other than OK in its return buffer, whatever the current-token field of
\* the control register holds, 0 included.
C29_ErrorBitEnds ==
    [][(/\ ev'.op = "i2cirq"
        /\ ev'.timeout = 0
        /\ i2c_ifState.current_req # NULL
        /\ i2c_ifState.current_ret # NULL
        /\ Field(interface.ctl, 3, 1) = 1)
         => /\ i2c_ifState'.current_req = NULL
            /\ ev'.pushed = i2c_ifState.current_ret
            /\ driver_ret_mem'[i2c_ifState.current_ret].err # I2C_ERR_OK]_vars

\* C30: when a completion IRQ ends a load of a read request that is not the
\* request's first load, the bytes the load read are appended to the return
\* buffer's payload after the bytes copied from the earlier loads, which
\* stay as they were.
C30_ReadsAppend ==
    [][(/\ ev'.op = "i2cirq"
        /\ ev'.timeout = 0
        /\ i2c_ifState.current_ret # NULL
        /\ h_passes >= 2
        /\ Field(interface.ctl, 3, 1) = 0
        /\ Field(interface.ctl, 8, 4) > 0)
         => driver_ret_mem'[i2c_ifState.current_ret].data
              = driver_ret_mem[i2c_ifState.current_ret].data
                  \o [i \in 1 .. Field(interface.ctl, 8, 4) |->
                         ReadByte(interface, i - 1)]]_vars

\* C31: when the timeout IRQ ends the in-flight transaction with the
\* notified flag set and a request pending in the request-used ring, the
\* handler itself pops that request, makes it current_req and loads it.
C31_TimeoutStartsPending ==
    [][(/\ ev'.op = "i2cirq"
        /\ ev'.timeout = 1
        /\ i2c_ifState.current_req # NULL
        /\ i2c_ifState.notified = 1
        /\ ~reqBufEmpty(driver_context))
         => /\ i2c_ifState'.current_req = ring_head(driver_context.req_used).buf
            /\ driver_context'.req_used = dequeue(driver_context.req_used)
            /\ ev'.loads >= 1]_vars

\* C32: every return slot on the driver context's return-used ring is
\* eventually popped from it by the server (the server having not faulted),
\* also when the driver pushed several return buffers before the server ran
\* and its notifications coalesced into one.
C32_EventuallyPopped ==
    \A b \in RetSlots :
        (CountIn(driver_context.ret_used, b) > 0)
            ~> (CountIn(driver_context.ret_used, b) = 0 \/ server_fault)

\* ------------------------------------------ claims about isolation

C34_ContextsInRange ==
    [][ev'.op \in {"clientNotify", "driverNotify"}
         => ev'.ctx < NUM_CLIENTS]_vars

====
